---------------------------- MODULE Spec2Model ----------------------------
(***************************************************************************)
(* Model of the non-RSS news collector (collectors_nonrss.py) and of the   *)
(* URL utilities (utils_normalize.py) of OmelaFeed_bot.                     *)
(*                                                                         *)
(* A URL string is modelled by the parts urlsplit cuts it into:            *)
(*   host  - scheme and netloc ("" for a relative reference),              *)
(*   path  - the path ("" when the reference has none),                    *)
(*   query - the sequence of raw "&"-separated segments of the query,      *)
(*   frag  - the literal suffix starting at "#" ("" when there is none).   *)
(* A raw query segment is [k, eq, v]: the text before "=", whether an "="  *)
(* is present, and the text after it.  Raw texts are percent-encoded       *)
(* tokens; Unquote and QuotePlus model the decoding and encoding on them.  *)
(***************************************************************************)
EXTENDS Integers, Sequences, FiniteSets, TLC

VARIABLES
    \* ---- configuration of one run of collect_nonrss (read once) ----
    yaml,         \* the parsed YAML: [sources |-> sequence of source entries]
    tz,           \* timezone argument: the name of a tzinfo
    remaining,    \* global cap argument
    date_from,    \* lower bound argument or NoDate
    date_to,      \* upper bound argument or NoDate
    \* ---- state of the generator collect_nonrss ----
    pc,           \* "list": about to fetch a list_url; "link": about to
                  \* fetch an article; "done": generator exhausted;
                  \* "aborted": an exception left the generator;
                  \* "idle": no run (function specifications)
    si,           \* index of the current source in yaml.sources
    li,           \* index of the current list_url of the source
    k,            \* index of the current link in links
    links,        \* result of _pick_links for the current list_url
    count,        \* records yielded so far in the run
    per_source,   \* records yielded so far for the current source
    emitted,      \* the sequence of records yielded to the caller
    origin,       \* origin[i]: index of the source that yielded emitted[i]
    \* ---- observation of the run's effects on the outside world ----
    fetches,      \* number of SESSION.get calls made so far
    lastFetch,    \* [src, ok]: source index and outcome of the last fetch
    slept,        \* TRUE iff time.sleep ran after the last fetch
    art,          \* result of the last _extract_article call, or NoArticle
    \* ---- one call of a pure function (function specifications) ----
    call,         \* name of the function called, or "none"
    arg,          \* its argument(s)
    ret,          \* its result, or NoResult before the call returns
    \* ---- the bot (news_pipeline_bot.py) ----
    MAX_ITEMS_PER_RUN,  \* configuration
    news,         \* table news: news[id] is the row with that id
    channel,      \* the messages posted to CHANNEL_ID: the ids of their items
    jobs,         \* JobQueue: the item ids of the pending publish_item_job jobs
    cards,        \* ids of the items a review card was sent for
    handler,      \* the update handler in progress: [pc, item]
    firing,       \* publish jobs between send_message and mark_status
    run,          \* the collection run in progress: [pc, kind, added, ...]
    clock,        \* datetime.now(TZ), as far as the rows record it
    \* ---- observation of the bot ----
    approved,     \* ids of the items an approve callback was handled for
    lastAdd,      \* argument and result of add_item in the last step, if any
    runBase       \* number of rows when the current or last run started

runVars == <<yaml, tz, remaining, date_from, date_to, pc, si, li, k, links,
             count, per_source, emitted, origin, fetches, lastFetch, slept,
             art>>
fnVars == <<call, arg, ret>>
botVars == <<MAX_ITEMS_PER_RUN, news, channel, jobs, cards, handler, firing,
             run, clock, approved, lastAdd, runBase>>
vars == <<runVars, fnVars, botVars>>

\* Python's None, in the shape of the values it stands in for
NoDate == -1                             \* date_from / date_to / dt is None
NoDoc == [status |-> "error"]            \* _get returned None
NoArticle == [status |-> "none"]         \* _extract_article returned None
NoResult == [done |-> FALSE]             \* the call has not returned
Result(v) == [done |-> TRUE, val |-> v]

\* SQL NULL in the columns of table news, and "no row"
NoUser == 0
NoMessage == 0
NoTime == -1
NoId == 0

\* The bot at rest, with an empty table.
Idle == [pc |-> "idle", item |-> NoId, msg |-> NoMessage]
NoRun == [pc |-> "idle", kind |-> "none", added |-> 0, yielded |-> 0, fed |-> 0,
          remaining |-> 0]
NoAdd == [called |-> FALSE]

BotEmpty ==
    /\ news = <<>> /\ channel = <<>> /\ jobs = <<>> /\ cards = {}
    /\ handler = Idle /\ firing = <<>> /\ run = NoRun
    /\ approved = {} /\ lastAdd = NoAdd /\ runBase = 0 /\ clock = 0

BotIdle == MAX_ITEMS_PER_RUN = 0 /\ BotEmpty

---------------------------------------------------------------------------
(* Bounds of the model *)

MaxParams == 2        \* query segments of an enumerated URL
MaxAnchors == 2       \* anchors of an enumerated listing page
MaxRemaining == 3     \* largest enumerated global cap
MaxPerSource == 2     \* largest enumerated max_per_source
MaxDate == 2          \* instants are 0..MaxDate
MaxElements == 2      \* elements of an enumerated article page
MaxText == 4          \* characters of an enumerated text
MaxLimit == 3         \* largest enumerated limit of clamp
MaxItemsPerRun == 2   \* largest enumerated MAX_ITEMS_PER_RUN
MaxFeed == 1          \* entries the RSS feeds return in one run
MaxPosts == 2         \* messages sent to the channel
MaxJobs == 1          \* publish jobs pending at a time
MaxClock == 1         \* instants at which a skip is handled
MaxDays == 2          \* days over which the current time of schedule_0900 ranges

---------------------------------------------------------------------------
(* utils_normalize.py *)

UTM_KEYS == {"utm_source", "utm_medium", "utm_campaign", "utm_term",
             "utm_content", "fbclid", "gclid", "mc_cid", "mc_eid"}

\* urllib.parse.unquote, after "+" was replaced by a space (parse_qsl).
Unquote(s) ==
    CASE s = "utm%5Fsource" -> "utm_source"
      [] s = "a%20b" -> "a b"
      [] s = "a+b" -> "a b"
      [] OTHER -> s

\* urllib.parse.quote_plus (urlencode's default quoting).
QuotePlus(s) ==
    CASE s = "a b" -> "a+b"
      [] OTHER -> s

\* urllib.parse.parse_qsl(query, keep_blank_values=True): an empty segment
\* is dropped, a segment without "=" gets the value "", names and values
\* are decoded.
RECURSIVE parse_qsl(_)
parse_qsl(q) ==
    IF q = <<>> THEN <<>>
    ELSE LET s == Head(q)
             rest == parse_qsl(Tail(q))
         IN  IF s.k = "" /\ ~s.eq
             THEN rest
             ELSE <<[name |-> Unquote(s.k),
                     value |-> IF s.eq THEN Unquote(s.v) ELSE ""]>> \o rest

\* urllib.parse.urlencode(pairs, doseq=True): each pair becomes name=value.
urlencode(pairs) ==
    [i \in 1..Len(pairs) |->
        [k |-> QuotePlus(pairs[i].name), eq |-> TRUE,
         v |-> QuotePlus(pairs[i].value)]]

NotTracking(p) == p.name \notin UTM_KEYS

\* A plausible slip: only the utm_ keys are filtered, the click ids stay.
NotUtm(p) == p.name \notin {"utm_source", "utm_medium", "utm_campaign",
                             "utm_term", "utm_content"}

canonical_url_utm_only(url) ==
    [host |-> url.host, path |-> url.path,
     query |-> urlencode(SelectSeq(parse_qsl(url.query), NotUtm)),
     frag |-> ""]

\* The host part of a URL without netloc: nothing, or the scheme alone.
EmptyNetloc(host) == host \in {"", "https:"}

\* urlunsplit followed by urlsplit: the parts of the string urlunsplit
\* builds.  urlunsplit writes "//" before the path only for a netloc, or for
\* a scheme whose path does not itself start with "//"; without netloc a
\* path that starts with "//" is therefore written bare, and its first
\* segment is read back as the netloc.
Reparse(url) ==
    IF EmptyNetloc(url.host) /\ url.path = "////x"
    THEN [url EXCEPT !.path = "//x"]
    ELSE IF EmptyNetloc(url.host) /\ url.path = "//x"
    THEN [url EXCEPT !.host = url.host \o "//x", !.path = ""]
    ELSE url

\* canonical_url returns a string; it is given here by the parts urlsplit
\* cuts that string into.
canonical_url(url) ==
    Reparse([host |-> url.host, path |-> url.path,
             query |-> urlencode(SelectSeq(parse_qsl(url.query), NotTracking)),
             frag |-> ""])

\* A text is the sequence of its characters.
IsSpace(c) == c \in {" ", "\n"}
Ellipsis == "..."      \* the single character U+2026

\* str.split(): the maximal runs of non-whitespace characters.  word is the
\* run being read.
RECURSIVE split(_, _)
split(text, word) ==
    IF text = <<>> THEN IF word = <<>> THEN <<>> ELSE <<word>>
    ELSE IF IsSpace(Head(text))
         THEN (IF word = <<>> THEN <<>> ELSE <<word>>) \o split(Tail(text), <<>>)
         ELSE split(Tail(text), Append(word, Head(text)))

\* " ".join(words)
RECURSIVE join(_)
join(words) ==
    IF words = <<>> THEN <<>>
    ELSE IF Len(words) = 1 THEN words[1]
    ELSE words[1] \o <<" ">> \o join(Tail(words))

\* str.rstrip()
RECURSIVE rstrip(_)
rstrip(t) ==
    IF t # <<>> /\ IsSpace(t[Len(t)]) THEN rstrip(SubSeq(t, 1, Len(t) - 1))
    ELSE t

\* t[:limit]
Slice(t, limit) == SubSeq(t, 1, IF limit < Len(t) THEN limit ELSE Len(t))

\* A plausible slip: the cut text is not stripped before the ellipsis.
clamp_no_rstrip(text, limit) ==
    LET t == join(split(text, <<>>))
    IN  Slice(t, limit) \o (IF Len(t) > limit THEN <<Ellipsis>> ELSE <<>>)

\* clamp(text, limit)
clamp(text, limit) ==
    LET t == join(split(text, <<>>))
    IN  rstrip(Slice(t, limit)) \o (IF Len(t) > limit THEN <<Ellipsis>> ELSE <<>>)

---------------------------------------------------------------------------
(* collectors_nonrss.py: link discovery *)

Url(h, p, q, f) == [host |-> h, path |-> p, query |-> q, frag |-> f]
Seg(key, val) == [k |-> key, eq |-> TRUE, v |-> val]

\* An anchor without href, or with a blank one: (a.get("href") or "").strip()
NoHref == Url("", "", <<>>, "")

\* _abs(base, href) = urllib.parse.urljoin(base, href): an absolute href
\* stands, a reference with a path takes the base's host, a query-only
\* reference the base's path too, a fragment-only reference the base's query.
\* (Every modelled path starts with "/", so no dot-segment merging occurs.)
_abs(base, href) ==
    IF href.host # "" THEN href
    ELSE IF href.path # "" THEN Url(base.host, href.path, href.query, href.frag)
    ELSE IF href.query # <<>> THEN Url(base.host, base.path, href.query, href.frag)
    ELSE Url(base.host, base.path, base.query, href.frag)

\* lines 179-180: if "#" in full: full = full.split("#")[0]
StripFragment(full) == IF full.frag # "" THEN [full EXCEPT !.frag = ""] ELSE full

\* lines 173-183: the hrefs of the selected anchors, made absolute, without
\* fragment; blank hrefs and empty results are skipped.
RECURSIVE CollectLinks(_, _)
CollectLinks(anchors, base) ==
    IF anchors = <<>> THEN <<>>
    ELSE LET href == Head(anchors)
             rest == CollectLinks(Tail(anchors), base)
             full == StripFragment(_abs(base, href))
         IN  IF href = NoHref THEN rest
             ELSE IF full = NoHref THEN rest
             ELSE <<full>> \o rest

\* lines 185-190: unique while preserving order
RECURSIVE UniqueFrom(_, _)
UniqueFrom(ls, seen) ==
    IF ls = <<>> THEN <<>>
    ELSE IF Head(ls) \in seen THEN UniqueFrom(Tail(ls), seen)
    ELSE <<Head(ls)>> \o UniqueFrom(Tail(ls), seen \cup {Head(ls)})

\* A plausible slip: the order-preserving filter is dropped.
pick_links_no_unique(doc, list_url, base_url) ==
    IF doc = NoDoc THEN <<>>
    ELSE CollectLinks(doc.anchors, IF base_url # NoHref THEN base_url ELSE list_url)

\* _pick_links, with the outcome of _get(list_url) passed as doc: NoDoc for
\* a failed fetch, else the page, whose anchors are those doc.select(
\* link_selector) returns, in document order.  base_url is NoHref when the
\* source configures none ("base_url or list_url").
pick_links(doc, list_url, base_url) ==
    IF doc = NoDoc THEN <<>>
    ELSE UniqueFrom(CollectLinks(doc.anchors,
                        IF base_url # NoHref THEN base_url ELSE list_url), {})

---------------------------------------------------------------------------
(* collectors_nonrss.py: the fields of an article page *)

\* An article page is given by
\*   els         - its elements with text content in document order, each
\*                 [tag, class, text], text being the element's stripped
\*                 strings joined by a space (a sequence of characters);
\*   og_title    - the content of <meta property="og:title">, <<>> when the
\*                 tag or its content is missing;
\*   description - the same for <meta name="description">;
\*   meta_dates  - for the entries of META_DATE_SELECTORS that find an
\*                 element, in the order of that list, the value of the
\*                 attribute read;
\*   date_els    - the elements that carry a date, in document order, each
\*                 [class, text, datetime], datetime being the value of
\*                 the attribute of that name.
El(t, c, x) == [tag |-> t, class |-> c, text |-> x]
DateEl(c, x, a) == [class |-> c, text |-> x, datetime |-> a]

\* Whether an element matches a CSS selector: "tag", ".class" or
\* "tag.class"; "article p" is a p element inside an article element,
\* given here by the class "in-article".
Matches(el, css) ==
    CASE css = "h1" -> el.tag = "h1"
      [] css = "h1.entry-title" -> el.tag = "h1" /\ el.class = "entry-title"
      [] css = "h1.article-title" -> el.tag = "h1" /\ el.class = "article-title"
      [] css = ".page-title" -> el.class = "page-title"
      [] css = "article p" -> el.tag = "p" /\ el.class = "in-article"
      [] css = ".entry-content p" -> el.tag = "p" /\ el.class = "in-entry-content"
      [] css = ".article-content p" -> el.tag = "p" /\ el.class = "in-article-content"
      [] css = ".lead" -> el.class = "lead"
      [] css = ".date" -> el.class = "date"
      [] css = ".published" -> el.class = "published"
      [] OTHER -> FALSE

\* doc.select_one(css): the first matching element as a one-element
\* sequence, <<>> for None.
select_one(els, css) ==
    LET hits == SelectSeq(els, LAMBDA el : Matches(el, css))
    IN  IF hits = <<>> THEN <<>> ELSE <<Head(hits)>>

\* _text_of(node)
text_of(node) == IF node = <<>> THEN <<>> ELSE node[1].text

\* The first selector of the list that selects an element, as a
\* one-element sequence of that element, <<>> when none does.
RECURSIVE first_selected(_, _)
first_selected(els, selectors) ==
    IF selectors = <<>> THEN <<>>
    ELSE IF select_one(els, Head(selectors)) # <<>>
         THEN select_one(els, Head(selectors))
         ELSE first_selected(els, Tail(selectors))

GenericTitleSelectors == <<"h1", "h1.entry-title", "h1.article-title">>
GenericSummarySelectors == <<"article p", ".entry-content p", ".article-content p">>

\* DetailRules: the selectors of a source; date_attr is "" for None.
\* (date_formats is read from the configuration and never used.)
DetailRules(ts, ss, ds, da) ==
    [title_selectors |-> ts, summary_selectors |-> ss, date_selectors |-> ds,
     date_attr |-> da]

\* _extract_title: rules.title_selectors or the generic list, then og:title
extract_title(doc, rules) ==
    LET selectors == IF rules.title_selectors # <<>> THEN rules.title_selectors
                     ELSE GenericTitleSelectors
        el == first_selected(doc.els, selectors)
    IN  IF el # <<>> THEN text_of(el)
        ELSE IF doc.og_title # <<>> THEN doc.og_title
        ELSE <<>>

\* _extract_summary: rules.summary_selectors or the generic list, then the
\* meta description
extract_summary(doc, rules) ==
    LET selectors == IF rules.summary_selectors # <<>> THEN rules.summary_selectors
                     ELSE GenericSummarySelectors
        el == first_selected(doc.els, selectors)
    IN  IF el # <<>> THEN text_of(el)
        ELSE IF doc.description # <<>> THEN doc.description
        ELSE <<>>

\* A datetime is [wall, tz]: the wall-clock reading (in whole hours) and
\* the name of its tzinfo, "naive" when it has none.  An aware datetime
\* denotes the instant wall - UtcOffset(tz).
Datetime(w, z) == [wall |-> w, tz |-> z]
NoDatetime == [wall |-> NoDate, tz |-> "none"]     \* None
UtcOffset(z) == CASE z = "+03:00" -> 3 [] z = "-05:00" -> -5 [] OTHER -> 0
Instant(dt) == dt.wall - UtcOffset(dt.tz)

\* dt.astimezone(tz) of an aware datetime: the same instant, read in tz
astimezone(dt, z) == Datetime(Instant(dt) + UtcOffset(z), z)

\* The text of a date, by the form it has:
\*   "iso"     - a date dateutil parses ("2025-09-05T10:00+03:00",
\*               "Fri, 05 Sep 2025 10:00:00"): wall and tz are what it says;
\*   "ua"      - a day, a Ukrainian month name in the genitive and a year
\*               ("5 veresnia 2025"), which dateutil does not know;
\*   "garbage" - any other non-empty text;
\*   "empty"   - the empty text, or a missing attribute.
DateText(kd, w, z) == [kind |-> kd, wall |-> w, tz |-> z]
Garbage == DateText("garbage", 0, "naive")
EmptyText == DateText("empty", 0, "naive")

\* _parse_date_any(value): dateparser.parse, None when it raises
parse_date_any(value) ==
    IF value.kind = "iso" THEN Datetime(value.wall, value.tz) ELSE NoDatetime

\* utils_normalize.parse_ua_date(text): the date DATE_PAT and UA_MONTHS
\* find, at midnight in TZ (Europe/Kyiv)
parse_ua_date(text) ==
    IF text.kind = "ua" THEN Datetime(text.wall, "+03:00") ELSE NoDatetime

\* _extract_date, lines 126-131: the first meta value that is non-empty
\* and parses
RECURSIVE meta_date(_)
meta_date(values) ==
    IF values = <<>> THEN NoDatetime
    ELSE IF Head(values).kind # "empty" /\ parse_date_any(Head(values)) # NoDatetime
         THEN parse_date_any(Head(values))
         ELSE meta_date(Tail(values))

\* _extract_date, lines 133-142: the first configured selector whose
\* element parses, by its attribute date_attr when that is configured and
\* present, else by its text.  date_attr is "" when none is configured.
RECURSIVE selected_date(_, _, _)
selected_date(els, selectors, date_attr) ==
    IF selectors = <<>> THEN NoDatetime
    ELSE LET el == select_one(els, Head(selectors))
             dt == IF date_attr = "datetime" /\ el[1].datetime.kind # "empty"
                   THEN parse_date_any(el[1].datetime)
                   ELSE parse_date_any(text_of(el))
         IN  IF el = <<>> THEN selected_date(els, Tail(selectors), date_attr)
             ELSE IF dt # NoDatetime THEN dt
             ELSE selected_date(els, Tail(selectors), date_attr)

\* _extract_date
extract_date(doc, rules) ==
    IF meta_date(doc.meta_dates) # NoDatetime THEN meta_date(doc.meta_dates)
    ELSE selected_date(doc.date_els, rules.date_selectors, rules.date_attr)

\* datetime.utcnow() at extraction: a naive datetime reading UTC.  The run
\* happens at the latest instant.
CollectionTime == MaxDate
utcnow == Datetime(CollectionTime, "naive")

\* str.strip()
RECURSIVE lstrip(_)
lstrip(t) == IF t # <<>> /\ IsSpace(Head(t)) THEN lstrip(Tail(t)) ELSE t
strip(t) == lstrip(rstrip(t))

\* the placeholder title "Bez nazvy" (in Ukrainian)
Untitled == <<"B", "e", "z", " ", "n", "a", "z", "v", "y">>

\* urlparse(url).netloc: the host part without its scheme.
netloc(url) ==
    CASE url.host = "https://a.com" -> "a.com"
      [] url.host = "https://b.com" -> "b.com"
      [] \E i \in 1..3 : url.host = "https://s" \o ToString(i) \o ".test" ->
            LET i == CHOOSE n \in 1..3 : url.host = "https://s" \o ToString(n) \o ".test"
            IN  "s" \o ToString(i) \o ".test"
      [] OTHER -> ""

\* A plausible slip: a naive date is taken as local time in tz instead of
\* UTC.
extract_article_local(doc, url, rules, z) ==
    IF doc = NoDoc THEN NoArticle
    ELSE LET title == strip(extract_title(doc, rules))
             summary == strip(extract_summary(doc, rules))
             found == extract_date(doc, rules)
             dt == IF found = NoDatetime THEN utcnow ELSE found
             aware == IF dt.tz = "naive" THEN [dt EXCEPT !.tz = z] ELSE dt
         IN  [status |-> "ok", url |-> url,
              title |-> IF title # <<>> THEN title ELSE Untitled,
              summary |-> summary, source |-> netloc(url),
              published_at |-> astimezone(aware, z)]

\* _extract_article, with the outcome of _get(url) passed as doc.
\* published_at is an ISO string; it is given here by the aware datetime
\* it spells, which fromisoformat reads back.
extract_article(doc, url, rules, z) ==
    IF doc = NoDoc THEN NoArticle
    ELSE LET title == strip(extract_title(doc, rules))
             summary == strip(extract_summary(doc, rules))
             found == extract_date(doc, rules)
             dt == IF found = NoDatetime THEN utcnow ELSE found
             aware == IF dt.tz = "naive" THEN [dt EXCEPT !.tz = "+00:00"] ELSE dt
         IN  [status |-> "ok", url |-> url,
              title |-> IF title # <<>> THEN title ELSE Untitled,
              summary |-> summary, source |-> netloc(url),
              published_at |-> astimezone(aware, z)]

---------------------------------------------------------------------------
(* Inputs of the function specifications *)

RawSegments ==
    { Seg("id", "5"), Seg("id", ""), Seg("q", "a%20b"), Seg("q", "a+b"),
      Seg("", "5"), Seg("UTM_SOURCE", "foo"),
      [k |-> "flag", eq |-> FALSE, v |-> ""],
      [k |-> "", eq |-> FALSE, v |-> ""],
      Seg("utm_source", "foo"), Seg("utm%5Fsource", "foo"), Seg("fbclid", "5") }

TrackingSegments == { s \in RawSegments : Unquote(s.k) \in UTM_KEYS }

SeqsUpTo(S, n) == UNION { [1..m -> S] : m \in 0..n }

Fragments == {"", "#", "#frag"}

\* URLs handed to canonical_url
InputUrls ==
    { Url("https://a.com", "/x", q, f) : q \in SeqsUpTo(RawSegments, MaxParams),
                                         f \in Fragments }

\* URLs handed to canonical_url twice in a row: with and without scheme and
\* netloc, the path starting with one, two or four slashes.
SlashUrls ==
    { Url(h, p, q, f) : h \in {"", "https:", "https://a.com"},
                        p \in {"", "/x", "//x", "////x"},
                        q \in SeqsUpTo(RawSegments, MaxParams - 1),
                        f \in Fragments }

\* hrefs found on listing pages
Hrefs ==
    { Url(h, p, q, f) : h \in {"", "https://a.com"}, p \in {"", "/n1", "/n2"},
                        q \in {<<>>, <<Seg("id", "5")>>, <<Seg("utm_source", "foo")>>},
                        f \in {"", "#c"} }

ListUrlA == Url("https://a.com", "/news", <<>>, "")
BaseUrlB == Url("https://b.com", "/", <<>>, "")

InsertAt(s, i, e) == SubSeq(s, 1, i - 1) \o <<e>> \o SubSeq(s, i, Len(s))

ListingDoc(anchors) == [status |-> "ok", anchors |-> anchors, dt |-> NoDate]

\* texts handed to clamp
Chars == {"a", "b", " ", "\n"}
Texts == SeqsUpTo(Chars, MaxText)

\* The default limit of clamp, and a text one character longer.
SummaryLimit == 750
LongText == [i \in 1..(SummaryLimit + 1) |-> "x"]

ArticleUrl == Url("https://a.com", "/n1", <<>>, "")

Page(els, og, descr, metas, dels) ==
    [status |-> "ok", anchors |-> <<>>, els |-> els, og_title |-> og,
     description |-> descr, meta_dates |-> metas, date_els |-> dels]

\* calls of _extract_article on pages with a summary: a paragraph of the
\* article, a configured .lead element, a meta description
SummaryTexts == {<<>>, <<"s">>, LongText}
SummaryElements ==
    { El("p", "in-article", x) : x \in SummaryTexts }
        \cup { El("div", "lead", x) : x \in SummaryTexts }

SummaryCalls ==
    { [doc |-> Page(els, <<>>, descr, <<>>, <<>>), url |-> ArticleUrl,
       rules |-> DetailRules(<<>>, ss, <<>>, ""), tz |-> "+03:00"] :
        els \in SeqsUpTo(SummaryElements, MaxElements),
        descr \in {<<>>, <<" ", "d">>, LongText},
        ss \in {<<>>, <<".lead">>} }

\* calls of _extract_article on pages with dates: in meta tags, in one
\* dated element, in both or in neither
DateTexts ==
    { DateText("iso", 0, "naive"), DateText("iso", 1, "+03:00"),
      DateText("ua", 0, "naive"), Garbage, EmptyText }

DateElements ==
    { DateEl("date", x, a) :
        x \in DateTexts,
        a \in {EmptyText, Garbage, DateText("iso", 1, "-05:00")} }

DateCalls ==
    { [doc |-> Page(<<>>, <<>>, <<>>, metas, dels), url |-> ArticleUrl,
       rules |-> DetailRules(<<>>, <<>>, ds, da), tz |-> z] :
        metas \in SeqsUpTo(DateTexts, MaxElements),
        dels \in SeqsUpTo(DateElements, 1),
        ds \in {<<>>, <<".date">>, <<".published", ".date">>},
        da \in {"", "datetime"},
        z \in {"+00:00", "+03:00"} }

FailedCall ==
    [doc |-> NoDoc, url |-> ArticleUrl, rules |-> DetailRules(<<>>, <<>>, <<>>, ""),
     tz |-> "+03:00"]

\* article pages handed to _extract_title, and the configured selectors
TitleElements ==
    { El(t, c, x) : t \in {"h1", "div"}, c \in {"", "page-title", "entry-title"},
                    x \in {<<>>, <<"H">>, <<"C">>} }

TitlePages ==
    [els : SeqsUpTo(TitleElements, MaxElements), og_title : {<<>>, <<"O">>}]

TitleRules ==
    { DetailRules(ts, <<>>, <<>>, "") :
        ts \in {<<>>, <<".page-title">>, <<"h1.entry-title", ".page-title">>} }

---------------------------------------------------------------------------
(* Function specification: one call of _pick_links or canonical_url on an *)
(* enumerated input.                                                      *)

RunIdle ==
    /\ yaml = [sources |-> <<>>] /\ tz = "+00:00"
    /\ remaining = 0 /\ date_from = NoDate /\ date_to = NoDate
    /\ pc = "idle" /\ si = 0 /\ li = 0 /\ k = 0 /\ links = <<>>
    /\ count = 0 /\ per_source = 0 /\ emitted = <<>> /\ origin = <<>>
    /\ fetches = 0 /\ lastFetch = [src |-> 0, ok |-> TRUE]
    /\ slept = FALSE /\ art = NoArticle

---------------------------------------------------------------------------
(* The web the collector runs against *)

Dates == 0..MaxDate
\* An article page without text, whose only date is a meta tag that reads
\* d without timezone; no date at all for NoDate.
ArticleDoc(d) ==
    [status |-> "ok", anchors |-> <<>>, els |-> <<>>, og_title |-> <<>>,
     description |-> <<>>,
     meta_dates |-> IF d = NoDate THEN <<>> ELSE <<DateText("iso", d, "naive")>>,
     date_els |-> <<>>]

HostA == "https://a.com"
HostB == "https://b.com"
ListA1 == Url(HostA, "/news", <<>>, "")
ListA2 == Url(HostA, "/news", <<Seg("page", "2")>>, "")
ListB1 == Url(HostB, "/list", <<>>, "")

\* The anchors doc.select(link_selector) finds on each listing page.
Anchors(list_url) ==
    CASE list_url = ListA1 ->
            << Url("", "/n1", <<>>, ""), Url("", "/n1", <<>>, "#c"),
               Url("", "/n2", <<Seg("utm_source", "foo")>>, "") >>
      [] list_url = ListA2 ->
            << Url("", "/n2", <<Seg("utm_source", "foo")>>, "#top"),
               Url("", "/n1", <<>>, "") >>
      [] list_url = ListB1 ->
            << Url(HostA, "/n1", <<>>, ""), Url("", "/m1", <<>>, "") >>
      [] OTHER -> <<>>

\* The test scenario of the specification: 3 sites, 20 eligible articles
\* each, on hosts that always answer.
BenchHost(i) == "https://s" \o ToString(i) \o ".test"
BenchHosts == { BenchHost(i) : i \in 1..3 }
BenchList(i) == Url(BenchHost(i), "/list", <<>>, "")
BenchAnchors == [j \in 1..20 |-> Url("", "/a" \o ToString(j), <<>>, "")]

IsListing(url) ==
    url \in {ListA1, ListA2, ListB1} \cup { BenchList(i) : i \in 1..3 }

\* What SESSION.get(url, timeout=15) can do: raise (network error,
\* timeout), or answer with a status code and a page.
Responses(url) ==
    IF url.host \in BenchHosts
    THEN IF IsListing(url)
         THEN { [kind |-> "http", status_code |-> 200,
                 page |-> ListingDoc(BenchAnchors)] }
         ELSE { [kind |-> "http", status_code |-> 200, page |-> ArticleDoc(1)] }
    ELSE { [kind |-> "exception"] }
         \cup { [kind |-> "http", status_code |-> 404, page |-> ArticleDoc(NoDate)] }
         \cup IF IsListing(url)
              THEN { [kind |-> "http", status_code |-> 200,
                      page |-> ListingDoc(Anchors(url))] }
              ELSE { [kind |-> "http", status_code |-> 200, page |-> ArticleDoc(d)] :
                        d \in Dates \cup {NoDate} }

---------------------------------------------------------------------------
(* collectors_nonrss.py: fetching and extraction *)

\* A plausible slip: the try/except is missing, the exception propagates.
get_raising(resp) ==
    IF resp.kind = "exception" THEN [status |-> "raised"]
    ELSE IF resp.status_code >= 400 THEN NoDoc
    ELSE resp.page

\* _get(url), applied to what SESSION.get did: None on an exception or a
\* status >= 400, else the parsed document.
get(resp) ==
    IF resp.kind = "exception" THEN NoDoc
    ELSE IF resp.status_code >= 400 THEN NoDoc
    ELSE resp.page

\* A plausible slip: the upper bound is taken inclusive.
within_range_inclusive(iso_ts, from, to) ==
    IF from = NoDate /\ to = NoDate THEN TRUE
    ELSE IF from # NoDate /\ Instant(iso_ts) < from THEN FALSE
    ELSE IF to # NoDate /\ Instant(iso_ts) > to THEN FALSE
    ELSE TRUE

\* _within_range(iso_ts, date_from, date_to): date_from and date_to are
\* aware datetimes, given by their instants; aware datetimes compare by
\* instant.
within_range(iso_ts, from, to) ==
    IF from = NoDate /\ to = NoDate THEN TRUE
    ELSE IF from # NoDate /\ Instant(iso_ts) < from THEN FALSE
    ELSE IF to # NoDate /\ Instant(iso_ts) >= to THEN FALSE
    ELSE TRUE

---------------------------------------------------------------------------
(* Configuration *)

DefaultMaxPerSource == 10

\* A pattern of the site policy is modelled by the set of paths it matches.
PathsN == {"/n1", "/n2"}
BenchPaths == { BenchAnchors[j].path : j \in 1..20 }

\* Entries of the "sources" list of the YAML file.  allow and deny are the
\* site-policy keys of the specification; the entry "E" leaves
\* max_per_source and list_urls out.
EntryA(m) == [name |-> "A", list_urls |-> <<ListA1, ListA2>>, base_url |-> NoHref,
              max_per_source |-> m, allow |-> {PathsN}, deny |-> {{"/n2"}}]
EntryE == [name |-> "E", list_urls |-> <<>>, base_url |-> NoHref,
           max_per_source |-> DefaultMaxPerSource, allow |-> {PathsN}, deny |-> {}]
EntryB(m) == [name |-> "B", list_urls |-> <<ListB1>>, base_url |-> NoHref,
              max_per_source |-> m, allow |-> {}, deny |-> {}]
BenchEntry(i) == [name |-> "S" \o ToString(i), list_urls |-> <<BenchList(i)>>,
                  base_url |-> NoHref, max_per_source |-> 5,
                  allow |-> {BenchPaths}, deny |-> {}]

SmallYaml(ma, mb) == [sources |-> <<EntryA(ma), EntryE, EntryB(mb)>>]
BenchYaml == [sources |-> [i \in 1..3 |-> BenchEntry(i)]]

\* lines 251-265: the SourceCfg built from an entry; other keys are not read.
\* The modelled entries have no "detail" key: src_cfg.get("detail", {}).
SourceCfg(src_cfg) ==
    [name |-> src_cfg.name, list_urls |-> src_cfg.list_urls,
     base_url |-> src_cfg.base_url, max_per_source |-> src_cfg.max_per_source,
     detail |-> DetailRules(<<>>, <<>>, <<>>, "")]

Src(s) == SourceCfg(yaml.sources[s])

---------------------------------------------------------------------------
(* collectors_nonrss.py: collect_nonrss, the control flow of its loops *)

\* A plausible slip: the caps are compared with > instead of >=.
CapReachedStrict(cnt, per, s) ==
    cnt > remaining \/ per > Src(s).max_per_source

\* lines 277 and 280: count >= remaining or per_source >= src.max_per_source
CapReached(cnt, per, s) ==
    cnt >= remaining \/ per >= Src(s).max_per_source

Position(p, s, l, kk, per) == [pc |-> p, si |-> s, li |-> l, k |-> kk, per |-> per]
Done == Position("done", 0, 0, 0, 0)
Aborted == Position("aborted", 0, 0, 0, 0)

RECURSIVE EnterSource(_, _), AfterSource(_, _)
\* line 250 and 266-267: the next source, its per_source counter at 0; a
\* source without list_urls falls through to line 282.
EnterSource(s, cnt) ==
    IF s > Len(yaml.sources) THEN Done
    ELSE IF Src(s).list_urls = <<>> THEN AfterSource(s, cnt)
    ELSE Position("list", s, 1, 0, 0)

\* lines 282-283: if count >= remaining: break
AfterSource(s, cnt) ==
    IF cnt >= remaining THEN Done ELSE EnterSource(s + 1, cnt)

\* lines 280-281, after the loop over the links of list_url l ended
AfterList(s, l, cnt, per) ==
    IF CapReached(cnt, per, s) THEN AfterSource(s, cnt)
    ELSE IF l < Len(Src(s).list_urls) THEN Position("list", s, l + 1, 0, per)
    ELSE AfterSource(s, cnt)

\* a loop that takes the same link again
AfterLinkAgain(s, l, kk, n, cnt, per) ==
    IF kk <= n THEN Position("link", s, l, kk, per)
    ELSE AfterList(s, l, cnt, per)

\* the next iteration of the loop over links (after continue, or after the
\* sleep of line 279)
AfterLink(s, l, kk, n, cnt, per) ==
    IF kk < n THEN Position("link", s, l, kk + 1, per)
    ELSE AfterList(s, l, cnt, per)

Goto(p) ==
    /\ pc' = p.pc /\ si' = p.si /\ li' = p.li /\ k' = p.k
    /\ per_source' = p.per

config == <<yaml, tz, remaining, date_from, date_to>>

FnIdle == call = "none" /\ arg = NoResult /\ ret = NoResult

Init ==
    /\ FnIdle /\ BotIdle
    /\ tz = "+03:00"
    /\ \/ /\ \E ma, mb \in 0..MaxPerSource : yaml = SmallYaml(ma, mb)
          /\ remaining \in 0..MaxRemaining
          /\ date_from \in {NoDate} \cup 1..(MaxDate - 1)
          /\ date_to \in {NoDate} \cup 2..MaxDate
       \/ /\ yaml = BenchYaml
          /\ remaining = 12
          /\ date_from = NoDate /\ date_to = NoDate
    /\ LET p == EnterSource(1, 0)
       IN  pc = p.pc /\ si = p.si /\ li = p.li /\ k = p.k /\ per_source = p.per
    /\ links = <<>> /\ count = 0 /\ emitted = <<>> /\ origin = <<>>
    /\ fetches = 0 /\ lastFetch = [src |-> 0, ok |-> TRUE]
    /\ slept = FALSE /\ art = NoArticle

\* line 268: for link in _pick_links(list_url, ...) - the listing page is
\* fetched and its links become the inner loop's sequence.
PickLinks ==
    /\ pc = "list"
    /\ LET src == Src(si)
           list_url == src.list_urls[li]
       IN  \E resp \in Responses(list_url) :
             LET doc == get(resp)
                 raised == doc.status = "raised"
                 ls == IF raised THEN <<>>
                       ELSE pick_links(doc, list_url, src.base_url)
                 nxt == IF raised THEN Aborted
                        ELSE IF ls = <<>> THEN AfterList(si, li, count, per_source)
                        ELSE Position("link", si, li, 1, per_source)
             IN  /\ fetches' = fetches + 1
                 /\ lastFetch' = [src |-> si, ok |-> doc.status = "ok"]
                 /\ slept' = FALSE
                 /\ links' = IF nxt.pc = "link" THEN ls ELSE <<>>
                 /\ Goto(nxt)
    /\ UNCHANGED <<config, count, emitted, origin, art, fnVars, botVars>>

\* lines 269-279: one iteration of the loop over the links.
ExtractArticle ==
    /\ pc = "link"
    /\ LET link == links[k]
           n == Len(links)
       IN  \E resp \in Responses(link) :
             LET doc == get(resp)
                 raised == doc.status = "raised"
                 a == IF raised THEN NoArticle
                      ELSE extract_article(doc, link, Src(si).detail, tz)
                 keep == /\ a # NoArticle
                         /\ within_range(a.published_at, date_from, date_to)
                 cnt == IF keep THEN count + 1 ELSE count
                 per == IF keep THEN per_source + 1 ELSE per_source
                 stop == keep /\ CapReached(cnt, per, si)
                 nxt == IF raised THEN Aborted
                        ELSE IF stop THEN AfterList(si, li, cnt, per)
                        ELSE AfterLink(si, li, k, n, cnt, per)
             IN  /\ fetches' = fetches + 1
                 /\ lastFetch' = [src |-> si, ok |-> doc.status = "ok"]
                 /\ art' = a
                 /\ emitted' = IF keep THEN Append(emitted, a) ELSE emitted
                 /\ origin' = IF keep THEN Append(origin, si) ELSE origin
                 /\ count' = cnt
                 /\ slept' = (keep /\ ~stop /\ ~raised)
                 /\ links' = IF nxt.pc = "link" THEN links ELSE <<>>
                 /\ Goto(nxt)
    /\ UNCHANGED <<config, fnVars, botVars>>

Next == PickLinks \/ ExtractArticle

Spec == Init /\ [][Next]_vars

\* The run when its consumer keeps asking for the next record: a fetch ends
\* within its timeout, a sleep ends, so the loops always take their next step.
FairSpec == Spec /\ WF_vars(Next)

---------------------------------------------------------------------------
(* news_pipeline_bot.py: the moderation queue (table news), the collection
   runs that fill it, the reviewers' callbacks and the publish jobs *)

Urls == {"u1", "u2"}
Users == {1, 2}

\* ADMINS lists user 1; ADMIN_CHAT_ID is not set
ADMINS == {1}

\* is_admin_context of an update sent by user_id from a private chat
is_admin_context(user_id) == user_id \in ADMINS

\* published_at of the article behind a URL, as the feed or page reports it
PublishedAt(url) == IF url = "u1" THEN 1 ELSE 2

Item(url, title) == [url |-> url, title |-> title, published_at |-> PublishedAt(url)]

\* entries parse_feed returns: some lack a link or a title
FeedItems == { Item(u, "t") : u \in Urls } \cup { Item("", "t"), Item("u1", "") }

\* records collect_nonrss yields: url and title are never empty
HtmlItems == { Item(u, "t") : u \in Urls }

Row(url, published_at, now) ==
    [url |-> url, status |-> "PENDING", published_at |-> published_at,
     created_at |-> now, approved_by |-> NoUser, scheduled_for |-> NoTime,
     channel_message_id |-> NoMessage]

\* add_item without the UNIQUE constraint on column url
add_item_no_unique(table, url, title, published_at, now) ==
    IF url = "" \/ title = ""
    THEN [news |-> table, id |-> NoId]
    ELSE [news |-> Append(table, Row(url, published_at, now)), id |-> Len(table) + 1]

\* add_item: the table after the call and the returned id (NoId for None)
add_item(table, url, title, published_at, now) ==
    IF url = "" \/ title = ""
    THEN [news |-> table, id |-> NoId]
    ELSE IF \E i \in DOMAIN table : table[i].url = url
    THEN [news |-> table, id |-> NoId]
    ELSE [news |-> Append(table, Row(url, published_at, now)), id |-> Len(table) + 1]

\* get_next_pending: ORDER BY published_at DESC, id ASC LIMIT 1
get_next_pending(table) ==
    LET pending == { i \in DOMAIN table : table[i].status = "PENDING" }
    IN  IF pending = {} THEN NoId
        ELSE CHOOSE i \in pending : \A j \in pending :
                \/ table[j].published_at < table[i].published_at
                \/ table[j].published_at = table[i].published_at /\ i <= j

COALESCE(value, null, column) == IF value = null THEN column ELSE value

\* mark_status without "SET status=?"
mark_status_fields_only(table, item_id, status, approved_by, scheduled_for, channel_message_id) ==
    IF item_id \notin DOMAIN table THEN table
    ELSE [table EXCEPT ![item_id] =
            [@ EXCEPT !.approved_by = COALESCE(approved_by, NoUser, @),
                      !.scheduled_for = COALESCE(scheduled_for, NoTime, @),
                      !.channel_message_id = COALESCE(channel_message_id, NoMessage, @)]]

\* mark_status without the channel_message_id column
mark_status_no_message(table, item_id, status, approved_by, scheduled_for, channel_message_id) ==
    IF item_id \notin DOMAIN table THEN table
    ELSE [table EXCEPT ![item_id] =
            [@ EXCEPT !.status = status,
                      !.approved_by = COALESCE(approved_by, NoUser, @),
                      !.scheduled_for = COALESCE(scheduled_for, NoTime, @)]]

mark_status(table, item_id, status, approved_by, scheduled_for, channel_message_id) ==
    IF item_id \notin DOMAIN table THEN table
    ELSE [table EXCEPT ![item_id] =
            [@ EXCEPT !.status = status,
                      !.approved_by = COALESCE(approved_by, NoUser, @),
                      !.scheduled_for = COALESCE(scheduled_for, NoTime, @),
                      !.channel_message_id = COALESCE(channel_message_id, NoMessage, @)]]

\* send_review_card: the card of the row is now in the admin chats
send_review_card(sent, row) == sent \cup {row}

\* row = get_next_pending(); if row: await send_review_card(context, row)
next_card(table, sent) ==
    LET row == get_next_pending(table)
    IN  IF row # NoId THEN send_review_card(sent, row) ELSE sent

BotInit ==
    /\ RunIdle /\ FnIdle
    /\ MAX_ITEMS_PER_RUN \in 1..MaxItemsPerRun
    /\ BotEmpty

Quiet == run.pc = "idle" /\ handler.pc = "idle"

\* the end of a collection run: the first card of the queue, if any was added
Finish(table, added) ==
    /\ cards' = IF added # 0 THEN next_card(table, cards) ELSE cards
    /\ run' = NoRun
    /\ runBase' = 0

\* collect_job is entered: by the daily job, /collect or the q_collect button
CollectJobStart ==
    /\ run.pc = "idle"
    /\ run' = [NoRun EXCEPT !.pc = "rss", !.kind = "job"]
    /\ runBase' = Len(news)
    /\ lastAdd' = NoAdd
    /\ UNCHANGED <<MAX_ITEMS_PER_RUN, news, channel, jobs, cards, handler, firing,
                   clock, approved, runVars, fnVars>>

\* the test a loop ends an iteration with: collect_job tests its cap only after
\* an insertion, /collect_range after every record
\* the same test with > for >=
cap_reached_strict(kind, inserted, added) ==
    IF kind = "range" THEN added > MAX_ITEMS_PER_RUN
    ELSE inserted /\ added > MAX_ITEMS_PER_RUN

cap_reached(kind, inserted, added) ==
    IF kind = "range" THEN added >= MAX_ITEMS_PER_RUN
    ELSE inserted /\ added >= MAX_ITEMS_PER_RUN

\* the RSS loops are over: the HTML sources follow if the cap is not reached
AfterRss(table, added) ==
    IF added < MAX_ITEMS_PER_RUN
    THEN /\ run' = [run EXCEPT !.pc = "html", !.added = added,
                               !.remaining = MAX_ITEMS_PER_RUN - added]
         /\ UNCHANGED <<cards, runBase>>
    ELSE Finish(table, added)

\* one entry of a feed
RssItem ==
    /\ run.pc = "rss"
    /\ run.fed < MaxFeed
    /\ \E itm \in FeedItems :
          IF itm.url = "" \/ itm.title = ""
          THEN /\ run' = [run EXCEPT !.fed = @ + 1]
               /\ lastAdd' = NoAdd
               /\ UNCHANGED <<news, cards, runBase>>
          ELSE LET r == add_item(news, itm.url, itm.title, itm.published_at, clock)
                   added == IF r.id # NoId THEN run.added + 1 ELSE run.added
               IN  /\ news' = r.news
                   /\ lastAdd' = [called |-> TRUE, url |-> itm.url, id |-> r.id]
                   /\ IF cap_reached("job", r.id # NoId, added)
                      THEN AfterRss(r.news, added)
                      ELSE /\ run' = [run EXCEPT !.fed = @ + 1, !.added = added]
                           /\ UNCHANGED <<cards, runBase>>
    /\ UNCHANGED <<MAX_ITEMS_PER_RUN, channel, jobs, handler, firing, clock,
                   approved, runVars, fnVars>>

\* the feeds are exhausted
RssEnd ==
    /\ run.pc = "rss"
    /\ AfterRss(news, run.added)
    /\ lastAdd' = NoAdd
    /\ UNCHANGED <<MAX_ITEMS_PER_RUN, news, channel, jobs, handler, firing, clock,
                   approved, runVars, fnVars>>

\* /collect_range, past its argument checks
CollectRangeStart ==
    /\ Quiet
    /\ \E user_id \in Users : is_admin_context(user_id)
    /\ run' = [NoRun EXCEPT !.pc = "html", !.kind = "range",
                            !.remaining = MAX_ITEMS_PER_RUN * 3]
    /\ runBase' = Len(news)
    /\ lastAdd' = NoAdd
    /\ UNCHANGED <<MAX_ITEMS_PER_RUN, news, channel, jobs, cards, handler, firing,
                   clock, approved, runVars, fnVars>>

\* one record of collect_nonrss, which tests its cap only after a yield
HtmlItem ==
    /\ run.pc = "html"
    /\ run.yielded < run.remaining \/ run.yielded = 0
    /\ \E itm \in HtmlItems :
          LET r == add_item(news, itm.url, itm.title, itm.published_at, clock)
              added == IF r.id # NoId THEN run.added + 1 ELSE run.added
          IN  /\ news' = r.news
              /\ lastAdd' = [called |-> TRUE, url |-> itm.url, id |-> r.id]
              /\ IF cap_reached(run.kind, r.id # NoId, added)
                 THEN Finish(r.news, added)
                 ELSE /\ run' = [run EXCEPT !.yielded = @ + 1, !.added = added]
                      /\ UNCHANGED <<cards, runBase>>
    /\ UNCHANGED <<MAX_ITEMS_PER_RUN, channel, jobs, handler, firing, clock,
                   approved, runVars, fnVars>>

\* collect_nonrss is exhausted, or raised
HtmlEnd ==
    /\ run.pc = "html"
    /\ Finish(news, run.added)
    /\ lastAdd' = NoAdd
    /\ UNCHANGED <<MAX_ITEMS_PER_RUN, news, channel, jobs, handler, firing, clock,
                   approved, runVars, fnVars>>

\* /review and the q_review button
Review ==
    /\ Quiet
    /\ \E user_id \in Users : is_admin_context(user_id)
    /\ get_next_pending(news) # NoId
    /\ cards' = send_review_card(cards, get_next_pending(news))
    /\ lastAdd' = NoAdd
    /\ UNCHANGED <<MAX_ITEMS_PER_RUN, news, channel, jobs, handler, firing, run,
                   clock, approved, runBase, runVars, fnVars>>

\* find_items_by_date for PENDING rows: ORDER BY published_at DESC, id ASC
find_items_by_date(table, start, end_excl) ==
    LET found == { i \in DOMAIN table : /\ table[i].status = "PENDING"
                                        /\ table[i].published_at >= start
                                        /\ table[i].published_at < end_excl }
    IN  IF found = {} THEN NoId
        ELSE CHOOSE i \in found : \A j \in found :
                \/ table[j].published_at < table[i].published_at
                \/ table[j].published_at = table[i].published_at /\ i <= j

\* /search and the q_search_* buttons: the card of the first row found
Search ==
    /\ Quiet
    /\ \E user_id \in Users : is_admin_context(user_id)
    /\ \E start \in 1..2 :
          /\ find_items_by_date(news, start, start + 1) # NoId
          /\ cards' = send_review_card(cards, find_items_by_date(news, start, start + 1))
    /\ lastAdd' = NoAdd
    /\ UNCHANGED <<MAX_ITEMS_PER_RUN, news, channel, jobs, handler, firing, run,
                   clock, approved, runBase, runVars, fnVars>>

\* context.bot.send_message either returns a message or raises
SendOutcomes == IF Len(channel) < MaxPosts THEN {"sent", "raised"} ELSE {"raised"}

\* button approve_now of a card: up to the await of send_message
CbApproveNow(item_id, user_id) ==
    /\ Quiet
    /\ item_id \in cards
    /\ approved' = approved \cup {item_id}
    /\ news' = mark_status(news, item_id, "APPROVED", user_id, NoTime, NoMessage)
    /\ \E outcome \in SendOutcomes :
          IF item_id \in DOMAIN news /\ outcome = "sent"
          THEN /\ channel' = Append(channel, item_id)
               /\ handler' = [pc |-> "mark", item |-> item_id, msg |-> Len(channel) + 1]
          ELSE /\ channel' = channel
               /\ handler' = Idle
    /\ lastAdd' = NoAdd
    /\ UNCHANGED <<MAX_ITEMS_PER_RUN, jobs, cards, firing, run, clock, runBase,
                   runVars, fnVars>>

\* approve_now after send_message returned: PUBLISHED, then the next card
CbApproveNowSent ==
    /\ handler.pc = "mark"
    /\ run.pc = "idle"
    /\ news' = mark_status(news, handler.item, "PUBLISHED", NoUser, NoTime, handler.msg)
    /\ cards' = next_card(news', cards)
    /\ handler' = Idle
    /\ lastAdd' = NoAdd
    /\ UNCHANGED <<MAX_ITEMS_PER_RUN, channel, jobs, firing, run, clock, approved,
                   runBase, runVars, fnVars>>

\* Wall-clock times of Europe/Kyiv are whole hours counted from midnight of
\* day 0; the clocks go forward from 03:00 to 04:00 in the night to day 1.
DayHours == 24
Nine == 9
DstAt == DayHours + 4
utcoffset(wall) == IF wall < DstAt THEN 2 ELSE 3
timestamp(wall) == wall - utcoffset(wall)

\* target of schedule_0900 without "if target < now: target += timedelta(days=1)"
target_0900_today(now) == (now \div DayHours) * DayHours + Nine

\* target: 09:00 of today's date, or of tomorrow's when that is already past
target_0900(now) ==
    LET target == (now \div DayHours) * DayHours + Nine
    IN  IF target < now THEN target + DayHours ELSE target

\* delay = (target - now).total_seconds(): both datetimes carry the same
\* tzinfo object, so the difference is taken between the wall-clock times
delay_0900(now) == target_0900(now) - now

\* the moment the run_once job becomes due: delay after the current moment
due_0900(now) == timestamp(now) + delay_0900(now)

\* schedule_0900: a run_once job for the item, and scheduled_for recorded
schedule_0900(table, item_id, now) ==
    mark_status(table, item_id, "APPROVED", NoUser, target_0900(now), NoMessage)

\* a job queue that drops the job it is given
run_once_lost(queue, item_id) == queue

\* context.job_queue.run_once(publish_item_job, ..., data={"item_id": item_id})
run_once(queue, item_id) == Append(queue, item_id)

\* button approve_0900 of a card
CbApprove0900(item_id, user_id) ==
    /\ Quiet
    /\ item_id \in cards
    /\ Len(jobs) < MaxJobs
    /\ approved' = approved \cup {item_id}
    /\ jobs' = run_once(jobs, item_id)
    /\ news' = schedule_0900(mark_status(news, item_id, "APPROVED", user_id, NoTime,
                                         NoMessage), item_id, clock)
    /\ cards' = next_card(news', cards)
    /\ lastAdd' = NoAdd
    /\ UNCHANGED <<MAX_ITEMS_PER_RUN, channel, handler, firing, run, clock, runBase,
                   runVars, fnVars>>

\* button reject of a card
CbReject(item_id, user_id) ==
    /\ Quiet
    /\ item_id \in cards
    /\ news' = mark_status(news, item_id, "REJECTED", user_id, NoTime, NoMessage)
    /\ cards' = next_card(news', cards)
    /\ lastAdd' = NoAdd
    /\ UNCHANGED <<MAX_ITEMS_PER_RUN, channel, jobs, handler, firing, run, clock,
                   approved, runBase, runVars, fnVars>>

\* button skip of a card: UPDATE news SET created_at=now WHERE id=item_id
CbSkip(item_id) ==
    /\ Quiet
    /\ item_id \in cards
    /\ clock < MaxClock
    /\ clock' = clock + 1
    /\ news' = IF item_id \in DOMAIN news
               THEN [news EXCEPT ![item_id].created_at = clock']
               ELSE news
    /\ cards' = next_card(news', cards)
    /\ lastAdd' = NoAdd
    /\ UNCHANGED <<MAX_ITEMS_PER_RUN, channel, jobs, handler, firing, run, approved,
                   runBase, runVars, fnVars>>

Remove(seq, at) == [ i \in 1..(Len(seq) - 1) |-> IF i < at THEN seq[i] ELSE seq[i + 1] ]

\* publish_item_job fires: up to the await of send_message
PublishJobFire(j) ==
    /\ run.pc = "idle"
    /\ j \in DOMAIN jobs
    /\ jobs' = Remove(jobs, j)
    /\ \E outcome \in SendOutcomes :
          IF jobs[j] # NoId /\ jobs[j] \in DOMAIN news /\ outcome = "sent"
          THEN /\ channel' = Append(channel, jobs[j])
               /\ firing' = Append(firing, [item |-> jobs[j], msg |-> Len(channel) + 1])
          ELSE UNCHANGED <<channel, firing>>
    /\ lastAdd' = NoAdd
    /\ UNCHANGED <<MAX_ITEMS_PER_RUN, news, cards, handler, run, clock, approved,
                   runBase, runVars, fnVars>>

\* publish_item_job after send_message returned
PublishJobSent(f) ==
    /\ run.pc = "idle"
    /\ f \in DOMAIN firing
    /\ news' = mark_status(news, firing[f].item, "PUBLISHED", NoUser, NoTime,
                           firing[f].msg)
    /\ firing' = Remove(firing, f)
    /\ lastAdd' = NoAdd
    /\ UNCHANGED <<MAX_ITEMS_PER_RUN, channel, jobs, cards, handler, run, clock,
                   approved, runBase, runVars, fnVars>>

BotNext ==
    \/ CollectJobStart \/ RssItem \/ RssEnd
    \/ CollectRangeStart \/ HtmlItem \/ HtmlEnd
    \/ Review \/ Search
    \/ \E item_id \in 1..Cardinality(Urls), user_id \in Users :
          \/ CbApproveNow(item_id, user_id)
          \/ CbApprove0900(item_id, user_id)
          \/ CbReject(item_id, user_id)
          \/ CbSkip(item_id)
    \/ CbApproveNowSent
    \/ \E j \in 1..MaxJobs : PublishJobFire(j)
    \/ \E f \in 1..MaxPosts : PublishJobSent(f)

BotSpec == BotInit /\ [][BotNext]_vars

---------------------------------------------------------------------------
(* The bot when every send to the channel succeeds and every due job and
   every resumed coroutine is eventually run *)

\* an approval is taken only while the channel has room for its post
Room == Len(channel) + Len(jobs) + Len(firing) < MaxPosts

LiveApproveNow(item_id, user_id) ==
    /\ Room
    /\ CbApproveNow(item_id, user_id)
    /\ handler'.pc = "mark"

LiveApprove0900(item_id, user_id) ==
    /\ Room
    /\ CbApprove0900(item_id, user_id)

LivePublishJobFire(j) ==
    /\ PublishJobFire(j)
    /\ Len(firing') > Len(firing)

\* the loops of a collection run have no await: once entered they run on
RunStep == RssItem \/ RssEnd \/ HtmlItem \/ HtmlEnd

BotLiveNext ==
    \/ CollectJobStart \/ CollectRangeStart \/ RunStep
    \/ Review \/ Search
    \/ \E item_id \in 1..Cardinality(Urls), user_id \in Users :
          \/ LiveApproveNow(item_id, user_id)
          \/ LiveApprove0900(item_id, user_id)
          \/ CbReject(item_id, user_id)
          \/ CbSkip(item_id)
    \/ CbApproveNowSent
    \/ \E j \in 1..MaxJobs : LivePublishJobFire(j)
    \/ \E f \in 1..MaxPosts : PublishJobSent(f)

\* the cap of a collection run plays no part in publishing
BotLiveInit == BotInit /\ MAX_ITEMS_PER_RUN = 1

BotLiveSpec ==
    /\ BotLiveInit
    /\ [][BotLiveNext]_vars
    /\ WF_vars(RunStep)
    /\ SF_vars(\E j \in 1..MaxJobs : LivePublishJobFire(j))
    /\ SF_vars(\E f \in 1..MaxPosts : PublishJobSent(f))

---------------------------------------------------------------------------
(* Function specification: one call of a function on an enumerated input *)

\* the current times of schedule_0900: every wall-clock hour of MaxDays days
\* that exists (03:00 of day 1 is skipped by the clocks)
Now == { w \in 0..(MaxDays * DayHours - 1) : w # DstAt - 1 }

\* the table when schedule_0900 is called: cb_handler has just marked item 1
ApprovedTables ==
    { mark_status(<<Row("u1", 1, 0)>>, 1, "APPROVED", user_id, NoTime, NoMessage) :
        user_id \in Users }

FnInit ==
    /\ RunIdle /\ BotIdle
    /\ ret = NoResult
    /\ \/ /\ call = "pick_links"
          /\ arg \in [doc : {NoDoc} \cup
                            { ListingDoc(a) : a \in SeqsUpTo(Hrefs, MaxAnchors) },
                      list_url : {ListUrlA},
                      base_url : {NoHref, BaseUrlB}]
       \/ /\ call = "canonical_url"
          /\ \E u \in InputUrls : arg = [url |-> u, other |-> u]
       \/ /\ call = "canonical_twice"
          /\ \E u \in SlashUrls : arg = [url |-> u]
       \/ /\ call = "clamp"
          /\ arg \in [text : Texts, limit : 1..MaxLimit]
       \/ /\ call = "extract_title"
          /\ arg \in [doc : TitlePages, rules : TitleRules]
       \/ /\ call = "extract_article"
          /\ arg \in SummaryCalls \cup DateCalls \cup {FailedCall}
       \/ /\ call = "schedule_0900"
          /\ arg \in [now : Now, table : ApprovedTables]

\* The caller takes a second URL that differs from the first only by
\* tracking parameters: one more tracking segment somewhere in the query.
AddTrackingParam ==
    /\ call = "canonical_url" /\ ret = NoResult
    /\ Len(arg.other.query) <= MaxParams
    /\ \E t \in TrackingSegments, i \in 1..(Len(arg.other.query) + 1) :
          arg' = [arg EXCEPT !.other.query = InsertAt(@, i, t)]
    /\ UNCHANGED <<call, ret, runVars, botVars>>

\* ... or only by fragment.
SetFragment ==
    /\ call = "canonical_url" /\ ret = NoResult
    /\ \E f \in Fragments :
          /\ f # arg.other.frag
          /\ arg' = [arg EXCEPT !.other.frag = f]
    /\ UNCHANGED <<call, ret, runVars, botVars>>

CallCanonicalUrl ==
    /\ call = "canonical_url" /\ ret = NoResult
    /\ ret' = Result([url |-> canonical_url(arg.url),
                      other |-> canonical_url(arg.other)])
    /\ UNCHANGED <<call, arg, runVars, botVars>>

CallPickLinks ==
    /\ call = "pick_links" /\ ret = NoResult
    /\ ret' = Result(pick_links(arg.doc, arg.list_url, arg.base_url))
    /\ UNCHANGED <<call, arg, runVars, botVars>>

\* canonical_url(canonical_url(u)), the first result kept for comparison
CallCanonicalTwice ==
    /\ call = "canonical_twice" /\ ret = NoResult
    /\ ret' = Result([once |-> canonical_url(arg.url),
                      twice |-> canonical_url(canonical_url(arg.url))])
    /\ UNCHANGED <<call, arg, runVars, botVars>>

CallExtractTitle ==
    /\ call = "extract_title" /\ ret = NoResult
    /\ ret' = Result(extract_title(arg.doc, arg.rules))
    /\ UNCHANGED <<call, arg, runVars, botVars>>

CallClamp ==
    /\ call = "clamp" /\ ret = NoResult
    /\ ret' = Result(clamp(arg.text, arg.limit))
    /\ UNCHANGED <<call, arg, runVars, botVars>>

\* _extract_article, the page being what _get(url) returned
CallExtractArticle ==
    /\ call = "extract_article" /\ ret = NoResult
    /\ ret' = Result(extract_article(arg.doc, arg.url, arg.rules, arg.tz))
    /\ UNCHANGED <<call, arg, runVars, botVars>>

\* schedule_0900 for item 1: the delay given to run_once, the moment the job
\* becomes due, and the table after mark_status
CallSchedule0900 ==
    /\ call = "schedule_0900" /\ ret = NoResult
    /\ ret' = Result([delay |-> delay_0900(arg.now),
                      due |-> due_0900(arg.now),
                      table |-> schedule_0900(arg.table, 1, arg.now)])
    /\ UNCHANGED <<call, arg, runVars, botVars>>

FnNext ==
    \/ AddTrackingParam \/ SetFragment \/ CallCanonicalUrl \/ CallPickLinks
    \/ CallCanonicalTwice \/ CallExtractTitle \/ CallClamp
    \/ CallExtractArticle \/ CallSchedule0900

FnSpec == FnInit /\ [][FnNext]_vars

---------------------------------------------------------------------------
(* Claims about collect_nonrss (specification Spec) *)

Sources == 1..Len(yaml.sources)
CountBy(s) == Cardinality({ i \in 1..Len(origin) : origin[i] = s })

\* C1: with a global cap >= 1 and every max_per_source >= 1, the run never
\* emits more records than the global cap, nor more than max_per_source for
\* any source; the run over 3 sources of 20 eligible articles each, with
\* max_per_source 5 and global cap 12, ends with exactly 12 records.
C1_CapsRespected ==
    /\ (remaining >= 1 /\ \A s \in Sources : Src(s).max_per_source >= 1)
          => /\ Len(emitted) <= remaining
             /\ \A s \in Sources : CountBy(s) <= Src(s).max_per_source
    /\ (yaml = BenchYaml /\ pc = "done")
          => /\ Len(emitted) = 12
             /\ \A s \in Sources : CountBy(s) <= 5

C1_Witness ==
    /\ yaml = BenchYaml /\ pc = "done"
    /\ Len(emitted) = 12 /\ CountBy(1) = 5 /\ CountBy(2) = 5 /\ CountBy(3) = 2

\* C2: within one run no URL is emitted twice, whether the link was seen
\* before on the same page, on another list_url or under another source.
C2_NoUrlEmittedTwice ==
    \A i, j \in 1..Len(emitted) : i # j => emitted[i].url # emitted[j].url

\* C3: once the global cap is reached no page is fetched any more, and once
\* the cap of a source is reached no page is fetched for that source.
C3_NoFetchAfterCap ==
    [][ /\ count >= remaining => fetches' = fetches
        /\ (pc \in {"list", "link"} /\ per_source >= Src(si).max_per_source)
              => ~(fetches' = fetches + 1 /\ lastFetch'.src = si) ]_vars

\* The range of the claim: lower bound inclusive, upper bound exclusive, a
\* missing bound does not constrain.
InClaimedRange(d) ==
    /\ date_from = NoDate \/ date_from <= d
    /\ date_to = NoDate \/ d < date_to

\* C4: an extracted article is emitted if and only if date_from <=
\* published_at < date_to; one outside the range is not emitted and counts
\* toward no cap.
C4_DateFilter ==
    [][ (pc = "link" /\ fetches' = fetches + 1 /\ art' # NoArticle)
          => /\ InClaimedRange(Instant(art'.published_at))
                  => /\ emitted' = Append(emitted, art')
                     /\ count' = count + 1
             /\ ~InClaimedRange(Instant(art'.published_at))
                  => /\ emitted' = emitted /\ origin' = origin
                     /\ count' = count ]_vars

C4_Witness ==
    /\ date_from # NoDate /\ date_to # NoDate
    /\ Len(emitted) >= 1
    /\ Instant(emitted[Len(emitted)].published_at) = date_from
    /\ art # NoArticle /\ Instant(art.published_at) = date_to
    /\ \A i \in 1..Len(emitted) : emitted[i] # art

MoreLists == li < Len(Src(si).list_urls)
LaterSources == { s \in Sources : s > si /\ Src(s).list_urls # <<>> }
Least(S) == CHOOSE x \in S : \A y \in S : x <= y
LastLinkOrListing == pc = "list" \/ (pc = "link" /\ k = Len(links))
SourceOver == per_source >= Src(si).max_per_source \/ ~MoreLists

\* C5: a failed page fetch yields no record and never aborts the run: the
\* next link, else the next list URL, else the next source is processed,
\* and the run ends only when a cap is reached or nothing is left.
C5_FailedFetchSkips ==
    [][ (fetches' = fetches + 1 /\ ~lastFetch'.ok)
          => /\ pc' # "aborted"
             /\ emitted' = emitted /\ count' = count
             /\ (pc = "link" /\ k < Len(links))
                  => /\ pc' = "link" /\ si' = si /\ li' = li
                     /\ k' = k + 1 /\ links' = links
             /\ (LastLinkOrListing /\ count < remaining /\ ~SourceOver)
                  => pc' = "list" /\ si' = si /\ li' = li + 1
             /\ (LastLinkOrListing /\ count < remaining /\ SourceOver
                    /\ LaterSources # {})
                  => pc' = "list" /\ si' = Least(LaterSources) /\ li' = 1
             /\ pc' = "done"
                  => \/ count >= remaining
                     \/ LastLinkOrListing /\ SourceOver /\ LaterSources = {} ]_vars

C5_Witness ==
    /\ fetches = 2 /\ ~lastFetch.ok /\ lastFetch.src = 1
    /\ pc = "list" /\ si = 3

\* C6: between two successive page fetches for the same source a polite
\* delay (time.sleep) is executed, also after a failed fetch or an article
\* the date filter skipped.
C6_DelayBetweenFetches ==
    [][ (fetches' = fetches + 1 /\ fetches >= 1 /\ lastFetch'.src = lastFetch.src)
          => slept ]_vars

\* The Site Policy Evaluator of the specification: deny first, then allow.
PolicyAllows(url, entry) ==
    /\ ~ \E d \in entry.deny : url.path \in d
    /\ \E a \in entry.allow : url.path \in a

\* C7: an article URL is fetched and emitted only if it matches an allow
\* pattern and no deny pattern of its site; a site with an empty allow list
\* yields no records.
C7_PolicyRespected ==
    /\ \A i \in 1..Len(emitted) :
          PolicyAllows(emitted[i].url, yaml.sources[origin[i]])
    /\ art # NoArticle => PolicyAllows(art.url, yaml.sources[lastFetch.src])
    /\ \A s \in Sources : yaml.sources[s].allow = {} => CountBy(s) = 0

---------------------------------------------------------------------------
(* Claims about _pick_links and canonical_url (specification FnSpec) *)

PickLinksReturned == call = "pick_links" /\ ret.done
LinkBase == IF arg.base_url # NoHref THEN arg.base_url ELSE arg.list_url
\* The URL an anchor points to, fragment apart.
Target(href) == StripFragment(_abs(LinkBase, href))
\* The anchors of the page that carry a href, and where a URL first appears.
Pointing == { i \in 1..Len(arg.doc.anchors) : arg.doc.anchors[i] # NoHref }
FirstAt(u) == Least({ i \in Pointing : Target(arg.doc.anchors[i]) = u })

\* C8: _pick_links returns each URL at most once, in order of first
\* appearance on the page; anchors to the same URL that differ only by
\* fragment produce exactly one entry; a failed fetch produces <<>>.
C8_LinksUniqueInOrder ==
    PickLinksReturned =>
        LET out == ret.val
        IN  IF arg.doc = NoDoc THEN out = <<>>
            ELSE /\ \A i, j \in 1..Len(out) : i # j => out[i] # out[j]
                 /\ { out[i] : i \in 1..Len(out) }
                       = { Target(arg.doc.anchors[i]) : i \in Pointing }
                 /\ \A i, j \in 1..Len(out) :
                       i < j => FirstAt(out[i]) < FirstAt(out[j])
                 /\ \A i, j \in Pointing :
                       [arg.doc.anchors[i] EXCEPT !.frag = ""]
                            = [arg.doc.anchors[j] EXCEPT !.frag = ""]
                       => Cardinality({ n \in 1..Len(out) :
                                out[n] = Target(arg.doc.anchors[i]) }) = 1

C8_Witness ==
    /\ PickLinksReturned
    /\ arg.doc = ListingDoc(<< Url("", "/n1", <<>>, "#c"), Url("", "/n1", <<>>, "") >>)
    /\ arg.base_url = NoHref
    /\ ret.val = << Url(HostA, "/n1", <<>>, "") >>

\* C9: every URL _pick_links returns, hence the url of every emitted
\* record, is canonical: canonical_url leaves it unchanged (no fragment, no
\* tracking parameter).
C9_LinksCanonical ==
    /\ PickLinksReturned
          => \A i \in 1..Len(ret.val) : canonical_url(ret.val[i]) = ret.val[i]
    /\ \A i \in 1..Len(emitted) : canonical_url(emitted[i].url) = emitted[i].url

CanonicalReturned == call = "canonical_url" /\ ret.done

\* The parameters of a query that are not on the tracking deny-list, in
\* their order.
RECURSIVE WithoutTracking(_)
WithoutTracking(pairs) ==
    IF pairs = <<>> THEN <<>>
    ELSE IF Head(pairs).name \in UTM_KEYS THEN WithoutTracking(Tail(pairs))
    ELSE <<Head(pairs)>> \o WithoutTracking(Tail(pairs))

RECURSIVE DropTrackingSegments(_)
DropTrackingSegments(q) ==
    IF q = <<>> THEN <<>>
    ELSE IF Head(q) \in TrackingSegments THEN DropTrackingSegments(Tail(q))
    ELSE <<Head(q)>> \o DropTrackingSegments(Tail(q))

\* Two URLs that differ only by fragment or by tracking parameters.
DifferOnlyByTracking(u, w) ==
    /\ u.host = w.host /\ u.path = w.path
    /\ DropTrackingSegments(u.query) = DropTrackingSegments(w.query)

CanonicalOf(in, out) ==
    /\ out.host = in.host /\ out.path = in.path
    /\ out.frag = ""
    /\ parse_qsl(out.query) = WithoutTracking(parse_qsl(in.query))

\* C10: canonical_url removes the fragment and exactly the query parameters
\* whose key is on the tracking deny-list, keeping the others in order; two
\* URLs that differ only by fragment or tracking parameters get the same
\* canonical URL.
C10_CanonicalUrl ==
    CanonicalReturned =>
        /\ CanonicalOf(arg.url, ret.val.url)
        /\ CanonicalOf(arg.other, ret.val.other)
        /\ DifferOnlyByTracking(arg.url, arg.other) => ret.val.url = ret.val.other

C10_Witness ==
    /\ CanonicalReturned
    /\ arg.url = Url("https://a.com", "/x", <<Seg("id", "5")>>, "")
    /\ arg.other = Url("https://a.com", "/x",
                       <<Seg("utm_source", "foo"), Seg("id", "5")>>, "#frag")
    /\ ret.val.url = arg.url /\ ret.val.other = arg.url

\* C11: canonical_url is idempotent: for every URL u,
\* canonical_url(canonical_url(u)) = canonical_url(u).
C11_Idempotent ==
    (call = "canonical_twice" /\ ret.done) => ret.val.twice = ret.val.once

\* C12: title extraction follows the cascade configured selector -> generic
\* heading (h1) -> og:title -> empty string and stops at the first stage
\* that succeeds; when selectors are configured, none matches and the page
\* has an h1, the text of the h1 is returned.
C12_TitleCascade ==
    (call = "extract_title" /\ ret.done) =>
        LET configured == first_selected(arg.doc.els, arg.rules.title_selectors)
            heading == select_one(arg.doc.els, "h1")
        IN  ret.val = IF configured # <<>> THEN text_of(configured)
                      ELSE IF heading # <<>> THEN text_of(heading)
                      ELSE IF arg.doc.og_title # <<>> THEN arg.doc.og_title
                      ELSE <<>>

ClampReturned == call = "clamp" /\ ret.done

\* The text with every run of whitespace replaced by one space and no
\* whitespace at either end, read off in one pass: gap tells that
\* whitespace was met since the last character written.
RECURSIVE CollapseFrom(_, _, _)
CollapseFrom(text, out, gap) ==
    IF text = <<>> THEN out
    ELSE IF IsSpace(Head(text)) THEN CollapseFrom(Tail(text), out, out # <<>>)
    ELSE CollapseFrom(Tail(text),
                      (IF gap THEN Append(out, " ") ELSE out) \o <<Head(text)>>,
                      FALSE)

Collapsed(text) == CollapseFrom(text, <<>>, FALSE)

\* C13 as claimed: a collapsed text longer than the limit comes back as
\* exactly its first limit characters plus one ellipsis (limit + 1
\* characters in all), a text within the limit as the collapsed text.
C13_ClampExact ==
    ClampReturned =>
        LET t == Collapsed(arg.text)
        IN  IF Len(t) > arg.limit
            THEN /\ ret.val = SubSeq(t, 1, arg.limit) \o <<Ellipsis>>
                 /\ Len(ret.val) = arg.limit + 1
            ELSE ret.val = t

\* C13 as amended: a collapsed text longer than the limit comes back as its
\* first limit characters, without the last of them when that is a space,
\* plus one ellipsis (limit + 1 characters, or limit when the space was
\* dropped); a text within the limit comes back as the collapsed text,
\* without ellipsis.
C13_ClampStripped ==
    ClampReturned =>
        LET t == Collapsed(arg.text)
            n == arg.limit
            keep == IF t[n] = " " THEN n - 1 ELSE n
        IN  IF Len(t) > n
            THEN /\ ret.val = SubSeq(t, 1, keep) \o <<Ellipsis>>
                 /\ Len(ret.val) = keep + 1
            ELSE /\ ret.val = t
                 /\ \A i \in 1..Len(ret.val) : ret.val[i] # Ellipsis

C13_Witness ==
    /\ ClampReturned
    /\ arg.text = <<"\n", "a", " ", "\n", "b">> \/ arg.text = <<"a", "\n", " ", "b">>
    /\ arg.limit = 2
    /\ ret.val = <<"a", Ellipsis>>

ArticleReturned ==
    call = "extract_article" /\ ret.done /\ ret.val # NoArticle

\* C14: the summary of every record the collector emits (the record
\* _extract_article returns, which collect_nonrss yields as it is) has
\* passed through the text clamp: at most 750 characters, plus at most one
\* trailing ellipsis, whichever stage produced it.
C14_SummaryClamped ==
    ArticleReturned =>
        LET summary == ret.val.summary
        IN  \/ Len(summary) <= SummaryLimit
            \/ /\ Len(summary) = SummaryLimit + 1
               /\ summary[Len(summary)] = Ellipsis

\* The first date in the free text of the page that has the Ukrainian form.
RECURSIVE ua_text_date(_)
ua_text_date(els) ==
    IF els = <<>> THEN NoDatetime
    ELSE IF parse_ua_date(Head(els).text) # NoDatetime
         THEN parse_ua_date(Head(els).text)
         ELSE ua_text_date(Tail(els))

\* The date of the claimed cascade: structured metadata, configured
\* selector, Ukrainian free text, current time.
ClaimedDate(doc, rules) ==
    LET meta == meta_date(doc.meta_dates)
        sel == selected_date(doc.date_els, rules.date_selectors, rules.date_attr)
        ua == ua_text_date(doc.date_els)
    IN  IF meta # NoDatetime THEN meta
        ELSE IF sel # NoDatetime THEN sel
        ELSE IF ua # NoDatetime THEN ua
        ELSE utcnow

AsUtc(dt) == IF dt.tz = "naive" THEN Instant([dt EXCEPT !.tz = "+00:00"])
             ELSE Instant(dt)

\* C15: the date of a record is that of the first stage that yields a
\* parseable date, in the order structured metadata, configured date
\* selector, Ukrainian free text (day, month name in the genitive, year),
\* current time; a malformed date in an earlier stage neither raises nor
\* stops the cascade; a page whose only date has the Ukrainian form gets
\* that date, not the current time.
C15_DateCascade ==
    ArticleReturned =>
        Instant(ret.val.published_at) = AsUtc(ClaimedDate(arg.doc, arg.rules))

C17_SourceIsEntryName ==
    \A i \in 1..Len(emitted) :
        emitted[i].source = yaml.sources[origin[i]].name

---------------------------------------------------------------------------
(* Claims about the moderation queue (specification BotSpec) *)

Present(url, table) == \E i \in DOMAIN table : table[i].url = url

\* C18: whatever add_item calls the RSS, HTML and /collect_range loops make,
\* the queue holds at most one row per URL; add_item for a URL already present
\* returns None and leaves the table, the status of the existing row included,
\* unchanged; and every newly inserted row has status PENDING.
C18_AtMostOneRowPerUrl ==
    [][ /\ \A i, j \in DOMAIN news' : news'[i].url = news'[j].url => i = j
        /\ (lastAdd'.called /\ Present(lastAdd'.url, news))
              => (lastAdd'.id = NoId /\ news' = news)
        /\ \A i \in DOMAIN news' \ DOMAIN news : news'[i].status = "PENDING"
      ]_vars

\* add_item was called for the URL of a row that had left status PENDING
C18_Witness ==
    /\ lastAdd.called
    /\ lastAdd.id = NoId
    /\ \E i \in DOMAIN news : news[i].url = lastAdd.url /\ news[i].status = "PUBLISHED"

\* C19: every post in the channel is of an item a reviewer's approve action
\* (approve_now or approve_0900) acted on before, and no posted item has
\* status PENDING.
C19_PostedOnlyAfterApproval ==
    \A p \in DOMAIN channel :
        /\ channel[p] \in approved
        /\ channel[p] \in DOMAIN news
        /\ news[channel[p]].status # "PENDING"

\* an item approved for 09:00 was posted by its job while another item, never
\* approved, is still in the queue
C19_Witness ==
    \E p \in DOMAIN channel :
        /\ news[channel[p]].scheduled_for # NoTime
        /\ news[channel[p]].status = "PUBLISHED"
        /\ \E i \in DOMAIN news : i \notin approved /\ news[i].status = "PENDING"

C21_PostedAtMostOnce ==
    \A p, q \in DOMAIN channel : channel[p] = channel[q] => p = q

Posts(item_id, chan) == { p \in DOMAIN chan : chan[p] = item_id }

\* C22: a rejected item is not posted and does not become PUBLISHED: no step
\* taken while an item has status REJECTED, other than a reviewer's new approve
\* action, adds a post of it to the channel or sets its status to PUBLISHED.
C22_RejectedNeverPosted ==
    [][ \A i \in DOMAIN news :
           (news[i].status = "REJECTED" /\ news'[i].status # "APPROVED")
              => /\ Posts(i, channel') = Posts(i, channel)
                 /\ news'[i].status # "PUBLISHED"
      ]_vars

Skipped(i) == news'[i].created_at # news[i].created_at

\* C25: a skip leaves the item PENDING, and when another PENDING item exists
\* the card sent right after the skip (the first pending row) is of a
\* different item than the one skipped.
C25_SkipMovesBack ==
    [][ \A i \in DOMAIN news :
           (Skipped(i) /\ news[i].status = "PENDING")
              => /\ news'[i].status = "PENDING"
                 /\ (\E j \in DOMAIN news' : j # i /\ news'[j].status = "PENDING")
                       => get_next_pending(news') # i
      ]_vars

\* C27: no status is written for a user outside an admin context: every
\* approved_by recorded by an approve or reject callback is an admin's.
C27_AdminOnly ==
    \A i \in DOMAIN news : news[i].approved_by \in ADMINS \cup {NoUser}

ScheduleReturned == call = "schedule_0900" /\ ret.done

\* the delay is within [0, 24 h) and the row is stored APPROVED with
\* scheduled_for the 09:00 that schedule_0900 aimed at
C26_DelayAndStored ==
    ScheduleReturned =>
        LET row == ret.val.table[1]
        IN  /\ ret.val.delay >= 0 /\ ret.val.delay < DayHours
            /\ row.status = "APPROVED"
            /\ row.scheduled_for % DayHours = Nine
            /\ row.scheduled_for = arg.now + ret.val.delay

\* C26: schedule_0900 schedules the publication at the nearest 09:00 of the
\* configured timezone not earlier than now: the delay is >= 0 and below 24
\* hours, the row is stored APPROVED with scheduled_for that 09:00, and the
\* job becomes due at that 09:00.
C26_Scheduled0900 ==
    /\ C26_DelayAndStored
    /\ ScheduleReturned => ret.val.due = timestamp(ret.val.table[1].scheduled_for)

Scheduled(i) == i \in DOMAIN news /\ news[i].scheduled_for # NoTime
Posted(i) == Posts(i, channel) # {}
Published(i) == i \in DOMAIN news /\ news[i].status = "PUBLISHED"

\* C24: when every send succeeds and every scheduled job is eventually run,
\* an item approved with "schedule 09:00" and not posted yet is eventually
\* posted to the channel and eventually has status PUBLISHED.
C24_ScheduledEventuallyPublished ==
    \A i \in 1..Cardinality(Urls) :
        (Scheduled(i) /\ ~Posted(i)) ~> (Posted(i) /\ Published(i))

\* an item scheduled for 09:00 and never approved for now was posted by its
\* job and is PUBLISHED
C24_Witness ==
    \E i \in DOMAIN news :
        /\ Scheduled(i) /\ Posted(i) /\ Published(i)
        /\ jobs = <<>> /\ firing = <<>>
        /\ Cardinality(Posts(i, channel)) = 1

\* C28: with a global cap of 0 the run emits no record, and a source whose
\* max_per_source is 0 contributes no record.
C28_ZeroCaps ==
    /\ remaining = 0 => emitted = <<>>
    /\ \A s \in Sources : Src(s).max_per_source = 0 => CountBy(s) = 0

\* the position of the loops moves forward: a later source, a later list URL
\* of the same source, a later link of the same listing, or the end
Advances ==
    \/ pc' = "done"
    \/ si' > si
    \/ si' = si /\ li' > li
    \/ si' = si /\ li' = li /\ k' > k

\* C29: every run ends, caps reached or not, and every step of it fetches one
\* page and moves the loops forward, so that no list URL and no link of a
\* listing is fetched twice and no failed fetch is repeated.
C29_Terminates ==
    /\ <>(pc = "done")
    /\ [][fetches' = fetches + 1 /\ Advances]_vars

\* a run that ended without reaching a cap, after a failed fetch
C29_Witness ==
    /\ pc = "done"
    /\ count < remaining
    /\ \A s \in Sources : CountBy(s) < Src(s).max_per_source
    /\ ~lastFetch.ok
    /\ fetches >= 3

===========================================================================
